---- MODULE Spec2Model ----
(***************************************************************************)
(* Model of the shop endpoint demo (src/src/main.rs): an actix-web server  *)
(* with six handlers over two SQLite tables, products and sales.           *)
(*                                                                         *)
(* The store is the only state.  Every handler issues one SQL statement,   *)
(* except add_sale, which issues two (existence check, then insert) with   *)
(* an await between them; other requests may run between the two.          *)
(* Every statement may fail with a store error (pool, I/O, busy); a failed *)
(* statement changes nothing.                                              *)
(*                                                                         *)
(* Whether SQLite enforces the FOREIGN KEY declared at main.rs:41 depends  *)
(* on the connection's foreign_keys pragma, which the code leaves at the   *)
(* driver's default; fkEnforced is fixed at Init to either value.          *)
(***************************************************************************)
EXTENDS Integers, FiniteSets, Bags, TLC

\* ---- bounds of the model ----
MaxProducts == 2      \* product inserts explored
MaxSales    == 2      \* sale inserts explored
MaxTasks    == 1      \* add_sale requests in flight at once

\* ---- sample request payloads ----
Discounts  == {10}
StartDates == {"2024-01-01"}
EndDates   == {"2024-01-31"}
UnknownId  == MaxProducts + 1   \* an id no insert has assigned

\* price is the f64 in hundredths; names keep their blanks
AddProduct == {[name |-> "Widget", price |-> 999, in_stock |-> TRUE],
               [name |-> " gadget ", price |-> -50, in_stock |-> FALSE]}

AddSale == [product_id : (1..MaxProducts) \cup {UnknownId}, discount : Discounts,
            start_date : StartDates, end_date : EndDates]

PathIds == (1..MaxProducts) \cup (1..MaxSales)

VARIABLES
    phase,        \* position of main: "down", "serving", "aborted"
    tables,       \* names of the tables that exist in the store
    products,     \* rows of table products
    sales,        \* rows of table sales
    seqProducts,  \* sqlite_sequence entry of products (AUTOINCREMENT)
    seqSales,     \* sqlite_sequence entry of sales
    usedProducts, \* history: every id an insert into products assigned
    usedSales,    \* history: every id an insert into sales assigned
    fkEnforced,   \* whether the store enforces FOREIGN KEY(product_id)
    inflight,     \* add_sale tasks between the existence check and the insert:
                  \* the bag of their payloads
    result,       \* the Result of the statement the last step executed
    resp          \* the response (or exit message) the last step produced

vars == <<phase, tables, products, sales, seqProducts, seqSales,
          usedProducts, usedSales, fkEnforced, inflight, result, resp>>

store == <<tables, products, sales, seqProducts, seqSales, usedProducts, usedSales>>

\* ---- helpers ----
Ids(rows) == {r.id : r \in rows}

Max(S) == IF S = {} THEN 0 ELSE CHOOSE m \in S : \A x \in S : x <= m

\* faulty variant: every flag is stored as 1
EncodeBool_AlwaysSet(b) == 1

\* BOOLEAN column: a bool is bound as integer 0/1 and read back as v /= 0
EncodeBool(b) == IF b THEN 1 ELSE 0
DecodeBool(v) == v /= 0

\* FromRow for Product / Sale
Product(row) == [id |-> row.id, name |-> row.name, price |-> row.price,
                 in_stock |-> DecodeBool(row.in_stock)]
Sale(row) == [id |-> row.id, product_id |-> row.product_id, discount |-> row.discount,
              start_date |-> row.start_date, end_date |-> row.end_date]

\* faulty variant: INTEGER PRIMARY KEY without AUTOINCREMENT, one more than the
\* largest rowid now in the table
NextId_MaxRowid(rows, seq) == Max(Ids(rows)) + 1

\* INTEGER PRIMARY KEY AUTOINCREMENT: one more than the largest rowid ever used
NextId(rows, seq) == Max(Ids(rows) \cup {seq}) + 1

\* op and path name the request answered (path: the {id} of a delete, else 0)
HttpResponse(op, path, status, body) ==
    [op |-> op, path |-> path, status |-> status, body |-> body, rows |-> {}]
Json(op, rows) ==
    [op |-> op, path |-> 0, status |-> 200, body |-> "", rows |-> rows]
NoResponse == HttpResponse("none", 0, 0, "")

\* Result<_, sqlx::Error> of a statement; n is the number of rows it
\* affected or fetched
Ok(n) == [ok |-> TRUE, n |-> n]
Err == [ok |-> FALSE, n |-> 0]

Init ==
    /\ phase = "down"
    /\ tables = {}
    /\ products = {}
    /\ sales = {}
    /\ seqProducts = 0
    /\ seqSales = 0
    /\ usedProducts = {}
    /\ usedSales = {}
    /\ fkEnforced \in BOOLEAN
    /\ inflight = EmptyBag
    /\ result = Ok(0)
    /\ resp = NoResponse

\* ---- statements ----

Schema == {"products", "sales"}

\* faulty variant: CREATE TABLE without IF NOT EXISTS, an existing table is an error
CreateIfNotExists_Plain(tabs, fault) ==
    CASE fault = "first" \/ "products" \in tabs -> [res |-> Err, tables |-> tabs]
      [] fault = "second" \/ "sales" \in tabs -> [res |-> Err, tables |-> tabs \cup {"products"}]
      [] OTHER -> [res |-> Ok(0), tables |-> tabs \cup Schema]

\* CREATE TABLE IF NOT EXISTS products ...; CREATE TABLE IF NOT EXISTS sales ...
\* fault: the statement at which the store fails, "first", "second" or "none".
\* IF NOT EXISTS: an existing table is left alone and raises no error.
CreateIfNotExists(tabs, fault) ==
    CASE fault = "first"  -> [res |-> Err, tables |-> tabs]
      [] fault = "second" -> [res |-> Err, tables |-> tabs \cup {"products"}]
      [] OTHER            -> [res |-> Ok(0), tables |-> tabs \cup Schema]

\* SELECT * FROM products / SELECT * FROM sales, decoded by FromRow
SelectProducts(rows) == {Product(r) : r \in rows}
SelectSales(rows) == {Sale(r) : r \in rows}

\* faulty variant: the WHERE clause is missing, any product row matches
ProductExists_AnyRow(rows, product_id) == rows /= {}

\* SELECT id FROM products WHERE id = ?  (fetch_optional is Some)
ProductExists(rows, product_id) == \E r \in rows : r.id = product_id

\* INSERT INTO products (name, price, in_stock) VALUES (?, ?, ?)
ProductRow(id, product) ==
    [id |-> id, name |-> product.name, price |-> product.price,
     in_stock |-> EncodeBool(product.in_stock)]

\* faulty variant: start_date and end_date bound in the wrong order
SaleRow_DatesSwapped(id, sale) ==
    [id |-> id, product_id |-> sale.product_id, discount |-> sale.discount,
     start_date |-> sale.end_date, end_date |-> sale.start_date]

\* INSERT INTO sales (product_id, discount, start_date, end_date) VALUES (?, ?, ?, ?)
SaleRow(id, sale) ==
    [id |-> id, product_id |-> sale.product_id, discount |-> sale.discount,
     start_date |-> sale.start_date, end_date |-> sale.end_date]

\* faulty variant: WHERE id <= ?
DeleteWhereId_UpTo(rows, id) == {r \in rows : r.id > id}

\* faulty variant: the WHERE clause is missing
DeleteWhereId_All(rows, id) == {}

\* DELETE FROM <table> WHERE id = ?
DeleteWhereId(rows, id) == {r \in rows : r.id /= id}

\* FOREIGN KEY(product_id) REFERENCES products(id), when enforced:
\* an insert of a sale whose product is absent fails
FkRejectsInsert(sale) == fkEnforced /\ ~ProductExists(products, sale.product_id)
\* a delete of a product that a sale references fails (default NO ACTION)
FkRejectsDelete(id) ==
    fkEnforced /\ ProductExists(products, id) /\ \E s \in sales : s.product_id = id

\* ---- operations ----

init_db(fault) ==
    /\ tables' = CreateIfNotExists(tables, fault).tables
    /\ result' = CreateIfNotExists(tables, fault).res
    /\ UNCHANGED <<products, sales, seqProducts, seqSales, usedProducts, usedSales>>

\* main: DATABASE_URL, connect, init_db, bind, run.
\* env: what the environment does to startup; fault: the store fault during
\* init_db.  expect() panics and the ? on bind both end the process.
main(env, fault) ==
    /\ phase \in {"down", "aborted"}
    /\ UNCHANGED <<fkEnforced, inflight>>
    /\ IF env = "no_env"
       THEN /\ phase' = "aborted"
            /\ resp' = HttpResponse("main", 0, 0, "DATABASE_URL must be set")
            /\ UNCHANGED <<store, result>>
       ELSE IF env = "connect_err"
       THEN /\ phase' = "aborted"
            /\ result' = Err
            /\ resp' = HttpResponse("main", 0, 0, "Failed to connect to DB")
            /\ UNCHANGED store
       ELSE /\ init_db(fault)
            /\ IF ~result'.ok
               THEN /\ phase' = "aborted"
                    /\ resp' = HttpResponse("main", 0, 0, "Failed to initialize the database")
               ELSE IF env = "bind_err"
               THEN /\ phase' = "aborted"
                    /\ resp' = HttpResponse("main", 0, 0, "bind")
               ELSE /\ phase' = "serving"
                    /\ resp' = NoResponse

Envs == {"no_env", "connect_err", "bind_err", "ok"}
Faults == {"none", "first", "second"}

\* the server future ends (signal); tasks in flight are dropped
Shutdown ==
    /\ phase = "serving"
    /\ phase' = "down"
    /\ inflight' = EmptyBag
    /\ resp' = NoResponse
    /\ UNCHANGED <<store, fkEnforced, result>>

get_products(err) ==
    /\ phase = "serving"
    /\ result' = IF err THEN Err ELSE Ok(Cardinality(products))
    /\ resp' = IF err THEN HttpResponse("get_products", 0, 500, "")
               ELSE Json("get_products", SelectProducts(products))
    /\ UNCHANGED <<phase, store, fkEnforced, inflight>>

\* faulty variant: a failed select is answered 200 with an empty list
get_sales_ErrorSwallowed(err) ==
    /\ phase = "serving"
    /\ result' = IF err THEN Err ELSE Ok(Cardinality(sales))
    /\ resp' = IF err THEN Json("get_sales", {})
               ELSE Json("get_sales", {Sale(r) : r \in sales})
    /\ UNCHANGED <<phase, store, fkEnforced, inflight>>

get_sales(err) ==
    /\ phase = "serving"
    /\ result' = IF err THEN Err ELSE Ok(Cardinality(sales))
    /\ resp' = IF err THEN HttpResponse("get_sales", 0, 500, "")
               ELSE Json("get_sales", SelectSales(sales))
    /\ UNCHANGED <<phase, store, fkEnforced, inflight>>

add_product(product, err) ==
    /\ phase = "serving"
    /\ seqProducts < MaxProducts
    /\ IF err
       THEN /\ result' = Err
            /\ resp' = HttpResponse("add_product", 0, 500, "")
            /\ UNCHANGED store
       ELSE LET id == NextId(products, seqProducts) IN
            /\ products' = products \cup {ProductRow(id, product)}
            /\ seqProducts' = id
            /\ usedProducts' = usedProducts \cup {id}
            /\ result' = Ok(1)
            /\ resp' = HttpResponse("add_product", 0, 200, "Product added successfully")
            /\ UNCHANGED <<tables, sales, seqSales, usedSales>>
    /\ UNCHANGED <<phase, fkEnforced, inflight>>

\* add_sale up to its second await: the existence check, and the match arms
\* that answer at once
add_sale_check(sale, err) ==
    /\ phase = "serving"
    /\ BagCardinality(inflight) < MaxTasks
    /\ IF err
       THEN /\ result' = Err
            /\ resp' = HttpResponse("add_sale", 0, 500, "Error checking product existence")
            /\ UNCHANGED inflight
       ELSE IF ProductExists(products, sale.product_id)
       THEN /\ result' = Ok(1)
            /\ inflight' = inflight (+) SetToBag({sale})
            /\ resp' = NoResponse
       ELSE /\ result' = Ok(0)
            /\ resp' = HttpResponse("add_sale", 0, 400, "Product does not exist")
            /\ UNCHANGED inflight
    /\ UNCHANGED <<phase, store, fkEnforced>>

\* add_sale from its second await: the insert and the response
add_sale_insert(sale, err) ==
    /\ phase = "serving"
    /\ BagIn(sale, inflight)
    /\ seqSales < MaxSales
    /\ IF err \/ FkRejectsInsert(sale)
       THEN /\ result' = Err
            /\ resp' = HttpResponse("add_sale", 0, 500, "Error adding sale")
            /\ UNCHANGED store
       ELSE LET id == NextId(sales, seqSales) IN
            /\ sales' = sales \cup {SaleRow(id, sale)}
            /\ seqSales' = id
            /\ usedSales' = usedSales \cup {id}
            /\ result' = Ok(1)
            /\ resp' = HttpResponse("add_sale", 0, 200, "Sale added successfully")
            /\ UNCHANGED <<tables, products, seqProducts, usedProducts>>
    /\ inflight' = inflight (-) SetToBag({sale})
    /\ UNCHANGED <<phase, fkEnforced>>

\* faulty variant: the delete cascades to the sales of the product
delete_product_Cascade(id, err) ==
    /\ phase = "serving"
    /\ IF err
       THEN /\ result' = Err
            /\ resp' = HttpResponse("delete_product", id, 500, "")
            /\ UNCHANGED store
       ELSE /\ products' = {r \in products : r.id /= id}
            /\ sales' = {r \in sales : r.product_id /= id}
            /\ result' = Ok(Cardinality(products) - Cardinality(products'))
            /\ resp' = HttpResponse("delete_product", id, 200,
                                    "Product deleted successfully")
            /\ UNCHANGED <<tables, seqProducts, seqSales, usedProducts, usedSales>>
    /\ UNCHANGED <<phase, fkEnforced, inflight>>

delete_product(id, err) ==
    /\ phase = "serving"
    /\ IF err \/ FkRejectsDelete(id)
       THEN /\ result' = Err
            /\ resp' = HttpResponse("delete_product", id, 500, "")
            /\ UNCHANGED store
       ELSE /\ products' = DeleteWhereId(products, id)
            /\ result' = Ok(Cardinality(products) - Cardinality(products'))
            /\ resp' = HttpResponse("delete_product", id, 200,
                                    "Product deleted successfully")
            /\ UNCHANGED <<tables, sales, seqProducts, seqSales, usedProducts, usedSales>>
    /\ UNCHANGED <<phase, fkEnforced, inflight>>

delete_sale(id, err) ==
    /\ phase = "serving"
    /\ IF err
       THEN /\ result' = Err
            /\ resp' = HttpResponse("delete_sale", id, 500, "")
            /\ UNCHANGED store
       ELSE /\ sales' = DeleteWhereId(sales, id)
            /\ result' = Ok(Cardinality(sales) - Cardinality(sales'))
            /\ resp' = HttpResponse("delete_sale", id, 200, "Sale deleted successfully")
            /\ UNCHANGED <<tables, products, seqProducts, seqSales, usedProducts, usedSales>>
    /\ UNCHANGED <<phase, fkEnforced, inflight>>

Startup == \E env \in Envs, fault \in Faults : main(env, fault)
GetProducts == \E err \in BOOLEAN : get_products(err)
GetSales == \E err \in BOOLEAN : get_sales(err)
AddProductReq == \E product \in AddProduct, err \in BOOLEAN : add_product(product, err)
AddSaleCheck == \E sale \in AddSale, err \in BOOLEAN : add_sale_check(sale, err)
AddSaleInsert == \E sale \in AddSale, err \in BOOLEAN : add_sale_insert(sale, err)
DeleteProduct == \E id \in PathIds, err \in BOOLEAN : delete_product(id, err)
DeleteSale == \E id \in PathIds, err \in BOOLEAN : delete_sale(id, err)

Next ==
    \/ Startup
    \/ Shutdown
    \/ GetProducts
    \/ GetSales
    \/ AddProductReq
    \/ AddSaleCheck
    \/ AddSaleInsert
    \/ DeleteProduct
    \/ DeleteSale

Spec == Init /\ [][Next]_vars

TypeOK ==
    /\ phase \in {"down", "serving", "aborted"}
    /\ tables \subseteq Schema
    /\ phase = "serving" => tables = Schema
    /\ fkEnforced \in BOOLEAN
    /\ seqProducts \in 0..MaxProducts
    /\ seqSales \in 0..MaxSales

\* ---- add_sale on an unknown product ----

NotFound == HttpResponse("add_sale", 0, 400, "Product does not exist")

\* C1 (as stated): every existence check of an add-sale request whose
\* product_id matches no products row answers 400 "Product does not exist"
\* and leaves the sales table as it was.
C1_AsStated ==
    [][\A sale \in AddSale, err \in BOOLEAN :
         (add_sale_check(sale, err) /\ sale.product_id \notin Ids(products))
         => /\ resp'.status = 400
            /\ resp'.body = "Product does not exist"
            /\ sales' = sales]_vars

\* C1 (amended): an add-sale request whose product_id matches no products row
\* when the existence check runs never inserts a sale row and is never passed
\* on to the insert; it answers 400 "Product does not exist" when the check
\* executes without a store error, and 500 "Error checking product existence"
\* when the check fails.
C1_UnknownProductRejected ==
    [][\A sale \in AddSale, err \in BOOLEAN :
         (add_sale_check(sale, err) /\ sale.product_id \notin Ids(products))
         => /\ sales' = sales
            /\ inflight' = inflight
            /\ ~err => (resp'.status = 400 /\ resp'.body = "Product does not exist")
            /\ err => (resp'.status = 500
                       /\ resp'.body = "Error checking product existence")]_vars

\* an unknown product_id was just answered 400 while products were on sale
C1_Witness ==
    /\ resp = NotFound
    /\ result = Ok(0)
    /\ products /= {}
    /\ UnknownId \notin Ids(products)

\* ---- referential integrity at creation ----

C3_AddProductRoundTrip ==
    [][\A product \in AddProduct, err \in BOOLEAN :
         (add_product(product, err) /\ resp'.status = 200)
         => /\ \E rec \in SelectProducts(products') :
                 /\ rec.name = product.name
                 /\ rec.price = product.price
                 /\ rec.in_stock = product.in_stock
                 /\ rec.id \notin Ids(products)
            /\ SelectProducts(products) \subseteq SelectProducts(products')]_vars

\* a product was just added next to an older one, one in stock and one not
C3_Witness ==
    /\ resp.op = "add_product"
    /\ resp.status = 200
    /\ \E a, b \in SelectProducts(products) :
         /\ a.id < b.id
         /\ b.id = seqProducts
         /\ a.in_stock /= b.in_stock

\* ---- add_sale on an existing product ----

\* the insert step added exactly one record, carrying the fields of sale
AddedOneSale(sale) ==
    /\ SelectSales(sales) \subseteq SelectSales(sales')
    /\ Cardinality(SelectSales(sales')) = Cardinality(SelectSales(sales)) + 1
    /\ \E rec \in SelectSales(sales') \ SelectSales(sales) :
         /\ rec.product_id = sale.product_id
         /\ rec.discount = sale.discount
         /\ rec.start_date = sale.start_date
         /\ rec.end_date = sale.end_date

\* C4 (as stated): an add-sale request whose product_id matches an existing
\* product is not answered with an error by the existence check, and its
\* insert answers 200 "Sale added successfully" and adds exactly one record
\* carrying the submitted fields.
C4_AsStated ==
    [][/\ \A sale \in AddSale, err \in BOOLEAN :
            (add_sale_check(sale, err) /\ sale.product_id \in Ids(products))
            => resp'.status /= 500
       /\ \A sale \in AddSale, err \in BOOLEAN :
            add_sale_insert(sale, err)
            => /\ resp'.status = 200
               /\ resp'.body = "Sale added successfully"
               /\ AddedOneSale(sale)]_vars

\* C4 (amended): for an add-sale request whose product_id matches an existing
\* product when the existence check runs: a store error in the check answers
\* 500 and inserts nothing; otherwise the request goes on to the insert.  The
\* insert answers 200 "Sale added successfully" exactly when it executes
\* without a store error and is not rejected by an enforced foreign key (the
\* product having been deleted since the check), and then adds exactly one
\* record carrying the submitted product_id, discount, start_date and
\* end_date; otherwise it answers 500 "Error adding sale" and the sales table
\* is unchanged.
C4_AddSaleOnExistingProduct ==
    [][/\ \A sale \in AddSale, err \in BOOLEAN :
            (add_sale_check(sale, err) /\ sale.product_id \in Ids(products))
            => /\ sales' = sales
               /\ err => resp'.status = 500
               /\ ~err => (CopiesIn(sale, inflight') = CopiesIn(sale, inflight) + 1 /\ resp' = NoResponse)
       /\ \A sale \in AddSale, err \in BOOLEAN :
            add_sale_insert(sale, err)
            => /\ resp'.status \in {200, 500}
               /\ resp'.status = 200
                    <=> (~err /\ (~fkEnforced \/ sale.product_id \in Ids(products)))
               /\ resp'.status = 200
                    => (resp'.body = "Sale added successfully" /\ AddedOneSale(sale))
               /\ resp'.status = 500
                    => (resp'.body = "Error adding sale" /\ sales' = sales)]_vars

\* a second sale was just added for a product that is on sale already
C4_Witness ==
    /\ resp.op = "add_sale"
    /\ resp.status = 200
    /\ Cardinality(sales) = 2
    /\ \E rec \in SelectSales(sales) :
         /\ rec.id = seqSales
         /\ rec.product_id \in Ids(products)
         /\ rec.start_date \in StartDates
         /\ rec.end_date \in EndDates

\* ---- deletes of an id that matches no row ----

\* C5: a delete-product or delete-sale on an id that matches no row, whose
\* statement executes without a store error, answers the 200 success response
\* and leaves the products and the sales table unchanged; the state after it
\* being the state before it, a repeat answers and leaves the same.
C5_DeleteOfAbsentId ==
    [][\A id \in PathIds :
         /\ (delete_product(id, FALSE) /\ id \notin Ids(products))
            => /\ resp' = HttpResponse("delete_product", id, 200,
                                       "Product deleted successfully")
               /\ UNCHANGED <<store, phase, inflight>>
         /\ (delete_sale(id, FALSE) /\ id \notin Ids(sales))
            => /\ resp' = HttpResponse("delete_sale", id, 200,
                                       "Sale deleted successfully")
               /\ UNCHANGED <<store, phase, inflight>>]_vars

\* a delete of a product id that matched no row was just answered 200, with
\* rows in both tables
C5_Witness ==
    /\ resp.op = "delete_product"
    /\ resp.status = 200
    /\ result = Ok(0)
    /\ products /= {}
    /\ sales /= {}

\* ---- delete of a product that sales reference ----

Referenced(id) == id \in Ids(products) /\ \E s \in sales : s.product_id = id

\* C6 (as stated): delete-product on a product that sales rows reference
\* answers 200, removes the product row and leaves the sales table unchanged.
C6_AsStated ==
    [][\A id \in PathIds, err \in BOOLEAN :
         (delete_product(id, err) /\ Referenced(id))
         => /\ resp'.status = 200
            /\ products' = {r \in products : r.id /= id}
            /\ sales' = sales]_vars

\* C6 (amended): delete-product on a product that sales rows reference is
\* never cascaded: the sales table is unchanged whatever the answer.  It
\* answers 200 exactly when the statement executes without a store error and
\* the store does not enforce the foreign key; it then removes the product
\* row and the referencing sales stay listed with a product_id of no product.
\* Otherwise (a store error, or the enforced foreign key blocking the delete)
\* it answers 500 and the products table is unchanged too.
C6_DeleteOfReferencedProduct ==
    [][\A id \in PathIds, err \in BOOLEAN :
         (delete_product(id, err) /\ Referenced(id))
         => /\ sales' = sales
            /\ resp'.status \in {200, 500}
            /\ resp'.status = 200 <=> (~err /\ ~fkEnforced)
            /\ resp'.status = 200
                 => /\ products' = {r \in products : r.id /= id}
                    /\ \E rec \in SelectSales(sales') :
                         rec.product_id = id /\ id \notin Ids(products')
            /\ resp'.status = 500 => products' = products]_vars

\* a product was just deleted from under a sale that references it
C6_Witness ==
    /\ resp.op = "delete_product"
    /\ resp.status = 200
    /\ result = Ok(1)
    /\ \E rec \in SelectSales(sales) :
         rec.product_id = resp.path /\ rec.product_id \notin Ids(products)

\* ---- schema initialization ----

\* main got as far as init_db
RanInitDb(fault) == \E env \in {"bind_err", "ok"} : main(env, fault)

\* C7 (as stated): init_db against a store that holds both tables succeeds
\* and leaves the tables and their rows unchanged.
C7_AsStated ==
    [][\A fault \in Faults :
         (RanInitDb(fault) /\ tables = Schema)
         => (result'.ok /\ UNCHANGED store)]_vars

\* C7 (amended): init_db against a store that holds both tables, with any
\* rows, leaves the tables and all rows unchanged whether it succeeds or not,
\* and succeeds whenever its statements execute without a store error (an
\* existing table is no error); a successful run leaves both tables in place,
\* and a second run on its result changes nothing.
C7_InitDbIdempotent ==
    [][\A fault \in Faults :
         RanInitDb(fault)
         => /\ tables = Schema => UNCHANGED store
            /\ fault = "none" => result'.ok
            /\ result'.ok
                 => /\ tables' = Schema
                    /\ CreateIfNotExists(tables', "none") = [res |-> Ok(0), tables |-> tables']
            /\ UNCHANGED <<products, sales, seqProducts, seqSales>>]_vars

\* the server came up again on a store that holds products and sales
C7_Witness ==
    /\ phase = "serving"
    /\ resp = NoResponse
    /\ result = Ok(0)
    /\ products /= {}
    /\ sales /= {}

\* ---- store errors ----

\* the step answered a request: every handler names itself in its response,
\* and main, Shutdown and an add_sale that passes its check answer none
Answered == phase = "serving" /\ resp'.op \notin {"none", "main"}

\* main ended the process on a failure of the store
StoppedByStore ==
    /\ phase' = "aborted"
    /\ resp'.body \in {"Failed to connect to DB", "Failed to initialize the database"}

\* C8 (as stated): a request whose statement fails answers 500, changes no
\* table and leaves the server serving; a store failure stops the process
\* only as a failure of schema initialization.
C8_AsStated ==
    [][/\ (Answered /\ ~result'.ok)
            => (resp'.status = 500 /\ UNCHANGED store /\ phase' = "serving")
       /\ StoppedByStore => resp'.body = "Failed to initialize the database"]_vars

\* C8 (amended): a request whose statement fails (list, add-product, the
\* existence check or the insert of add-sale, delete) answers 500, changes no
\* table and leaves the server serving, where later requests are answered; a
\* store failure stops the process only in main before serving, as a failure
\* to connect or a failure of schema initialization (main's other exits are
\* DATABASE_URL unset and the bind failing).
C8_StoreErrorHandledLocally ==
    [][/\ (Answered /\ ~result'.ok)
            => (resp'.status = 500 /\ UNCHANGED store /\ phase' = "serving")
       /\ Answered => phase' = "serving"
       /\ phase' = "aborted"
            => /\ phase /= "serving"
               /\ resp'.op = "main"
               /\ resp'.body \in {"DATABASE_URL must be set", "Failed to connect to DB",
                                  "Failed to initialize the database", "bind"}
       /\ StoppedByStore => ~result'.ok]_vars

\* the insert of an add-sale just failed and the server is still serving
C8_Witness ==
    /\ phase = "serving"
    /\ resp.op = "add_sale"
    /\ resp.status = 500
    /\ resp.body = "Error adding sale"
    /\ ~result.ok
    /\ products /= {}

\* ---- identifiers ----

UniqueIds(rows) == \A r1, r2 \in rows : r1.id = r2.id => r1 = r2

\* C9: no two products rows share an id and no two sales rows share an id,
\* and the id of an inserted row is greater than every id an insert into that
\* table assigned before.
C9_IdsUniqueAndIncreasing ==
    [][/\ UniqueIds(products')
       /\ UniqueIds(sales')
       /\ \A r \in products' \ products : \A u \in usedProducts : r.id > u
       /\ \A r \in sales' \ sales : \A u \in usedSales : r.id > u]_vars

\* a product was just added after an earlier product had been deleted
C9_Witness ==
    /\ resp.op = "add_product"
    /\ resp.status = 200
    /\ seqProducts \in Ids(products)
    /\ \E u \in usedProducts : u < seqProducts /\ u \notin Ids(products)

\* ---- frame of a delete ----

RemovedOnly(before, after, id) ==
    /\ id \notin Ids(after)
    /\ after \subseteq before
    /\ \A r \in before : r.id /= id => r \in after
    /\ Cardinality(before \ after) <= 1

\* C10: when delete-product (delete-sale) answers 200, the products (sales)
\* table afterwards holds no row with that id and every other row it held
\* before, and at most one row is gone.
C10_DeleteRemovesThatRowOnly ==
    [][\A id \in PathIds, err \in BOOLEAN :
         /\ (delete_product(id, err) /\ resp'.status = 200)
            => RemovedOnly(products, products', id)
         /\ (delete_sale(id, err) /\ resp'.status = 200)
            => RemovedOnly(sales, sales', id)]_vars

\* one of two products was just deleted
C10_Witness ==
    /\ resp.op = "delete_product"
    /\ resp.status = 200
    /\ result = Ok(1)
    /\ Cardinality(products) = 1
    /\ Cardinality(usedProducts) = 2
====
